---- MODULE Spec2Model ----
(***************************************************************************)
(* State-machine model of the opportunity sync engine of sam-search:       *)
(* SyncManager (sync_manager.py) on top of OpportunityDB (database.py).    *)
(*                                                                         *)
(* Time is counted in ticks, TicksPerDay ticks to a day.  A datetime is a  *)
(* tick count; isoformat()/fromisoformat() keep the whole datetime, while  *)
(* strftime("%m/%d/%Y") keeps the day only.  An optional value (Python's   *)
(* None or a value) is the empty or the one-element sequence.  A stored     *)
(* opportunity is its url and the naics_desc the sync wrote to it.         *)
(*                                                                         *)
(* Specifications:                                                         *)
(*   Spec        incremental_sync and full_sync of one SyncManager         *)
(*   SpecPages   one full_sync with pages of up to two records             *)
(*   SpecUpsert  upsert_opportunity and bulk_upsert_opportunities called   *)
(*               directly, on dicts with optional fields and timestamps    *)
(*   SpecCalc    CapabilityMatcher.calculate_match on every pair of an     *)
(*               opportunity and a capability of Opportunities,            *)
(*               Capabilities                                              *)
(*   SpecAnalyze analyze_opportunity on stored capabilities and matches    *)
(*   SpecBatch   one batch_analyze call                                    *)
(*   SpecConcurrent two SyncManagers, one incremental_sync each, their     *)
(*               steps interleaved                                         *)
(*   SpecRestart incremental_sync runs and restarts of the process         *)
(*   SpecScheduler one OpportunityScheduler: start, the scheduler thread,  *)
(*               stop                                                      *)
(* A text of the matcher is the sequence of its characters, a score a      *)
(* whole number of 1/ScoreUnit points.                                     *)
(***************************************************************************)
EXTENDS Integers, Sequences, FiniteSets, TLC

\* ------------------------------------------------------------------ bounds
MaxClock == 1           \* last tick of the wall clock
TicksPerDay == 1        \* resolution of the clock
MaxOpportunities == 2   \* largest max_opportunities a caller passes
MaxCalls == 2           \* calls of incremental_sync and full_sync explored
MaxBulk == 2            \* longest list handed to bulk_upsert_opportunities
MaxKeywords == 2        \* longest keywords list of a capability
MaxCapabilities == 3    \* most capabilities stored
MaxIds == 2             \* longest id list handed to batch_analyze

\* ------------------------------------------------------- program constants
FirstSyncDays == 30     \* timedelta(days=30)
OneDay == 1             \* timedelta(days=1)
ThrottleNaics == 2      \* time.sleep(2)
ThrottleBatch == 3      \* time.sleep(3)
BatchLimitFactor == 3   \* batch_size * 3
DaysBack == 7           \* full_sync(days_back=7)
MaxScore == 100         \* max_score = 100, min(score, 100)
KeywordWeight == 40     \* keyword_weight = 40
NaicsWeight == 30       \* naics_weight = 30
AgencyWeight == 20      \* agency_weight = 20
SetAsideWeight == 10    \* set_aside_weight = 10
BatchLimit == 1000      \* get_opportunities(limit=1000)

\* config["naics"]: the configured category codes, in configuration order.
\* The desc of a code is written to the stored record as naics_desc.
naics == <<"n1", "n2">>

\* The urls of the records the source can return.
Urls == {"u1", "u2"}

\* The batch_size values a caller of full_sync passes.
BatchSizes == {1}

\* The batch_size values of a caller whose pages can hold several records.
PageBatchSizes == {2}

\* The opportunity dicts a caller hands to upsert_opportunity: a url, alone,
\* with a title, or with a created_at of its own (a time before the clock
\* starts).
Titles == {"t1", "t2"}

OpportunityDicts ==
    UNION {{[url |-> u],
            [url |-> u, created_at |-> -1]} \cup
           {[url |-> u, title |-> t] : t \in Titles} : u \in Urls}

\* The keywords a capability can list.
Keywords == {<<"a">>, <<"B">>, <<"c">>}

\* The SyncManager instances (each holds its own self.sync_state).
Managers == {"A", "B"}

None == <<>>
Some(x) == <<x>>

VARIABLES
    clock,          \* datetime.now(timezone.utc)
    opportunities,  \* db.opportunities: the stored documents
    sync_state_doc, \* db.sync_state document "main" (None: no document)
    sync_state,     \* self.sync_state of each SyncManager
    pc,             \* position of each manager's current call
    frame,          \* local variables of each manager's current call
    outcome,        \* how each manager's last call ended
    hist,           \* per call: the state at its start and what it did
    calls,          \* number of calls started so far
    last_write,     \* per url: the opportunity last handed to upsert_opportunity
    capabilities,   \* db.capabilities: the stored documents, in scan order
    matches,        \* db.matches: the stored rows, in insertion order
    analysis,       \* the last call of the CapabilityMatcher and what it did
    analysed,       \* the analyses run so far: the opportunity, whether it returned
    running,        \* self.running of the OpportunityScheduler
    thread,         \* position of the scheduler thread ("none": self.thread is None)
    main,           \* position of the thread that calls start() and stop()
    job,            \* per thread: the sync_job it is executing
    sync_jobs,      \* db.sync_jobs: the job outcome records, in insertion order
    stopped_at      \* what stop() found when it cleared self.running

\* The state of the OpportunityScheduler and its audit trail.
scheduler_vars == <<running, thread, main, job, sync_jobs, stopped_at>>

vars == <<clock, opportunities, sync_state_doc, sync_state, pc, frame,
          outcome, hist, calls, last_write, capabilities, matches, analysis,
          analysed, running, thread, main, job, sync_jobs, stopped_at>>

\* What the sync engine does not touch.
outside_sync == <<last_write, capabilities, matches, analysis, analysed, scheduler_vars>>

\* ------------------------------------------------------------ OpportunityDB

\* opportunities.find_one({"url": url}): the matching documents (empty: None)
find_one(coll, url) == {d \in coll : d.url = url}

\* A $set that leaves the fields the document already has as they are.
set_missing_fields(doc, fields) ==
    [f \in DOMAIN doc \cup DOMAIN fields |->
        IF f \in DOMAIN doc THEN doc[f] ELSE fields[f]]

\* {"$set": fields} applied to a document: the fields named are written, the
\* document's other fields stay.
set_fields(doc, fields) ==
    [f \in DOMAIN doc \cup DOMAIN fields |->
        IF f \in DOMAIN fields THEN fields[f] ELSE doc[f]]

\* upsert_opportunity, first two statements: the dict handed in gets
\* last_updated = now and created_at = its own created_at, else now.
timestamped(opp, now) ==
    [f \in DOMAIN opp \cup {"last_updated", "created_at"} |->
        IF f = "last_updated" THEN now
        ELSE IF f = "created_at"
             THEN (IF "created_at" \in DOMAIN opp THEN opp.created_at ELSE now)
             ELSE opp[f]]

\* A write that inserts the dict whether the url is stored or not.
upsert_opportunity_inserting(coll, opp) == coll \cup {opp}

\* upsert_opportunity: update_one({"url": ...}, {"$set": opportunity},
\* upsert=True) modifies one matching document or inserts a new one.
upsert_opportunity(coll, opp) ==
    IF find_one(coll, opp.url) # {}
    THEN LET old == CHOOSE d \in find_one(coll, opp.url) : TRUE
         IN  (coll \ {old}) \cup {set_fields(old, opp)}
    ELSE coll \cup {opp}

\* bulk_upsert_opportunities: one upsert per record, in list order.
RECURSIVE bulk_upsert_opportunities(_, _)
bulk_upsert_opportunities(coll, opps) ==
    IF opps = <<>> THEN coll
    ELSE bulk_upsert_opportunities(upsert_opportunity(coll, Head(opps)), Tail(opps))

StoredUrls(coll) == {d.url : d \in coll}

\* --------------------------------------------------------------- SyncManager

\* _load_sync_state: the stored document, else (no document, or the read
\* raised) the default state.
DefaultState ==
    [last_sync_date |-> None, total_synced |-> 0, last_sync_timestamp |-> None]

load_sync_state(doc, readOk) ==
    IF readOk /\ doc # None THEN doc[1] ELSE DefaultState

\* strftime("%m/%d/%Y"): the day of a datetime.
strftime(t) == t \div TicksPerDay

\* A date range that starts at the cursor itself.
from_date_of_cursor(state, now) ==
    IF state.last_sync_date # None
    THEN state.last_sync_date[1]
    ELSE now - FirstSyncDays * TicksPerDay

\* incremental_sync, "Determine date range".
from_date_of(state, now) ==
    IF state.last_sync_date # None
    THEN state.last_sync_date[1] + OneDay * TicksPerDay
    ELSE now - FirstSyncDays * TicksPerDay

\* opportunities_per_naics = max_opportunities // len(config["naics"])
opportunities_per_naics(max_opportunities) == max_opportunities \div Len(naics)

\* The pages the source can answer a request of at most `limit` records with.
RECURSIVE Pages(_)
Pages(limit) ==
    IF limit <= 0 THEN {<<>>}
    ELSE LET shorter == Pages(limit - 1)
         IN  shorter \cup {Append(p, u) : p \in {q \in shorter : Len(q) = limit - 1}, u \in Urls}

\* A dedup check that never finds the record.
existing_never(coll, url) == FALSE

\* "Check if we already have this opportunity"
existing(coll, url) == find_one(coll, url) # {}

\* The records of a page that incremental_sync keeps as new, tagged with the
\* desc of the code they were fetched under.
RECURSIVE new_opportunities(_, _, _)
new_opportunities(coll, page, desc) ==
    IF page = <<>> THEN <<>>
    ELSE LET rest == new_opportunities(coll, Tail(page), desc)
         IN  IF existing(coll, Head(page))
             THEN rest
             ELSE <<[url |-> Head(page), naics_desc |-> desc]>> \o rest

\* full_sync tags every record of the page.
RECURSIVE tagged(_, _)
tagged(page, desc) ==
    IF page = <<>> THEN <<>>
    ELSE <<[url |-> Head(page), naics_desc |-> desc]>> \o tagged(Tail(page), desc)

PageUrls(page) == {page[i] : i \in 1..Len(page)}
RecordUrls(opps) == {opps[i].url : i \in 1..Len(opps)}

\* A run that stores and updates state whatever it found.
should_store_always(all_new_opportunities) == TRUE

\* "if all_new_opportunities:" -- whether the run stores and updates state.
should_store(all_new_opportunities) == all_new_opportunities # <<>>

\* An update that overwrites total_synced with the count of this run.
updated_sync_state_overwriting(state, to_date, count) ==
    [state EXCEPT !.last_sync_date = Some(to_date),
                  !.total_synced = count]

\* An update that leaves the cursor where it was.
updated_sync_state_keeping_date(state, to_date, count) ==
    [state EXCEPT !.total_synced = @ + count]

\* incremental_sync, "Update sync state" (in memory).
updated_sync_state(state, to_date, count) ==
    [state EXCEPT !.last_sync_date = Some(to_date),
                  !.total_synced = @ + count]

\* A state update that does not wait for bulk_upsert_opportunities to return.
sync_state_after_store_eager(state, to_date, stored, total) ==
    [state EXCEPT !.last_sync_date = Some(to_date),
                  !.total_synced = @ + stored]

\* self.sync_state after "Store new opportunities": updated once
\* bulk_upsert_opportunities has returned the count of all `total` records,
\* untouched when an upsert raised after `stored` records.
sync_state_after_store(state, to_date, stored, total) ==
    IF stored = total THEN updated_sync_state(state, to_date, stored) ELSE state

\* full_sync, "Update sync state" (in memory).
full_updated_sync_state(state, to_date, total_synced) ==
    [state EXCEPT !.last_sync_date = Some(to_date),
                  !.total_synced = total_synced]

\* _save_sync_state stamps the state before it writes it.
stamped(state, now) == [state EXCEPT !.last_sync_timestamp = Some(now)]

\* "Stop if we've hit our limit for this run"
batch_limit_reached(naics_total, batch_size) ==
    naics_total >= batch_size * BatchLimitFactor

\* time.sleep(seconds), issued when the call has made `searches` searches.
Sleep(seconds, searches) == [seconds |-> seconds, after |-> searches]

\* A loop that throttles only after a fetch that returned records.
sleep_after_fetch_of_records(sleeps, searches, res) ==
    IF res = "ok" THEN Append(sleeps, Sleep(ThrottleNaics, searches)) ELSE sleeps

\* incremental_sync, "Throttle between NAICS searches": the last statement
\* of the loop body, whatever search_opportunities returned (`res`).
sleep_after_fetch(sleeps, searches, res) ==
    Append(sleeps, Sleep(ThrottleNaics, searches))

\* ----------------------------------------------------------------- the state

NoFrame ==
    [method |-> "none", from_date |-> 0, to_date |-> 0, limit |-> 0, naics |-> 1,
     all_new_opportunities |-> <<>>, offset |-> 0, naics_total |-> 0,
     total_synced |-> 0]

\* What is recorded of a call: the time, the SyncState (in memory, stored)
\* and the stored opportunities at its start; the urls its dedup check found stored;
\* its searches, its sleeps (each with the number of searches made before
\* it), the upserts that succeeded and the SyncState writes it issued.
NoHist ==
    [clock |-> 0, sync_state |-> DefaultState, sync_state_doc |-> None,
     opportunities |-> {}, dropped |-> {}, trace |-> <<>>, sleeps |-> <<>>, upserts |-> 0, saves |-> 0]

\* No call of the CapabilityMatcher yet.
NoAnalysis == [method |-> "none"]

\* The threads of the scheduler process: the one that calls start() and
\* stop(), and the one start() creates to run run_scheduler.
Threads == {"main", "timer"}

\* The sync_job of a thread: none yet ("idle"), being executed ("try"), or
\* executed ("done"); the number of incremental_sync calls and the audit
\* trail when the thread entered it.
NoJob == [state |-> "idle", calls |-> 0, sync_jobs |-> <<>>]

\* OpportunityScheduler.__init__: not running, no thread; an empty audit
\* trail.
InitScheduler ==
    /\ running = FALSE
    /\ thread = "none"
    /\ main = "new"
    /\ job = [t \in Threads |-> NoJob]
    /\ sync_jobs = <<>>
    /\ stopped_at = None

\* The sync engine after construction, before any call and any write.
InitSync ==
    /\ clock = 0
    /\ sync_state_doc = None
    /\ sync_state = [m \in Managers |-> load_sync_state(None, TRUE)]
    /\ pc = [m \in Managers |-> "idle"]
    /\ frame = [m \in Managers |-> NoFrame]
    /\ outcome = [m \in Managers |-> "none"]
    /\ hist = [m \in Managers |-> NoHist]
    /\ calls = 0
    /\ last_write = [u \in Urls |-> None]

Init ==
    /\ InitSync
    /\ InitScheduler
    /\ opportunities = {}
    /\ capabilities = <<>>
    /\ matches = <<>>
    /\ analysis = NoAnalysis
    /\ analysed = <<>>

\* What a call records when it starts.
StartHist(m) ==
    [clock |-> clock, sync_state |-> sync_state[m], sync_state_doc |-> sync_state_doc,
     opportunities |-> opportunities, dropped |-> {}, trace |-> <<>>,
     sleeps |-> <<>>, upserts |-> 0, saves |-> 0]

\* A call of search_opportunities (the code requested, the date strings, limit
\* and offset passed) and how api_instance.search answered it: "ok" (a page),
\* "empty" (the empty page), "ApiException", or "error" (any other error);
\* `records` is the number of records search_opportunities returned.
Search(m, res, records) ==
    [naics |-> frame[m].naics,
     posted_from |-> strftime(frame[m].from_date),
     posted_to |-> strftime(frame[m].to_date),
     limit |-> frame[m].limit,
     offset |-> frame[m].offset,
     res |-> res,
     records |-> records]

\* The wall clock advances.
Tick ==
    /\ clock < MaxClock
    /\ clock' = clock + 1
    /\ UNCHANGED <<opportunities, sync_state_doc, sync_state, pc, frame, outcome, hist, calls>>
    /\ UNCHANGED outside_sync

\* The call raises to its caller.
Raise(m, error) ==
    /\ pc' = [pc EXCEPT ![m] = "idle"]
    /\ outcome' = [outcome EXCEPT ![m] = error]

\* ----------------------------------------------------------- incremental_sync

\* Lines up to the loop: the date range and the per-code limit.
incremental_sync_begin(m) ==
    /\ pc[m] = "idle"
    /\ calls < MaxCalls
    /\ calls' = calls + 1
    /\ \E max_opportunities \in 1..MaxOpportunities :
         frame' = [frame EXCEPT ![m] =
            [NoFrame EXCEPT !.method = "incremental_sync",
                            !.from_date = from_date_of(sync_state[m], clock),
                            !.to_date = clock,
                            !.limit = opportunities_per_naics(max_opportunities)]]
    /\ pc' = [pc EXCEPT ![m] = "inc_fetch"]
    /\ outcome' = [outcome EXCEPT ![m] = "running"]
    /\ hist' = [hist EXCEPT ![m] = StartHist(m)]
    /\ UNCHANGED <<clock, opportunities, sync_state_doc, sync_state>>
    /\ UNCHANGED outside_sync

\* One iteration of "for naics in config['naics']" with the records
\* `fetched` returned by search_opportunities, then time.sleep(2).
inc_iteration(m, fetched, res) ==
    /\ frame' = [frame EXCEPT ![m] =
          [@ EXCEPT !.all_new_opportunities =
                        @ \o new_opportunities(opportunities, fetched, naics[frame[m].naics]),
                    !.naics = @ + 1]]
    /\ pc' = [pc EXCEPT ![m] =
          IF frame[m].naics = Len(naics) THEN "inc_store" ELSE "inc_fetch"]
    /\ hist' = [hist EXCEPT ![m] =
          [@ EXCEPT !.dropped = @ \cup {u \in PageUrls(fetched) : existing(opportunities, u)},
                    !.trace = Append(@, Search(m, res, Len(fetched))),
                    !.sleeps = sleep_after_fetch(@, Len(hist[m].trace) + 1, res)]]
    /\ UNCHANGED <<clock, opportunities, sync_state_doc, sync_state, outcome, calls>>
    /\ UNCHANGED outside_sync

\* The source answers with a page.
incremental_sync_fetch(m) ==
    /\ pc[m] = "inc_fetch"
    /\ \E page \in Pages(frame[m].limit) :
         inc_iteration(m, page, IF page = <<>> THEN "empty" ELSE "ok")

\* api_instance.search raises ApiException: search_opportunities returns [].
incremental_sync_fetch_ApiException(m) ==
    /\ pc[m] = "inc_fetch"
    /\ inc_iteration(m, <<>>, "ApiException")

\* api_instance.search raises an error that is no ApiException (a network or
\* timeout error of the transport): no handler in search_opportunities or
\* incremental_sync catches it.
incremental_sync_fetch_error(m) ==
    /\ pc[m] = "inc_fetch"
    /\ Raise(m, "source_error")
    /\ hist' = [hist EXCEPT ![m] = [@ EXCEPT !.trace = Append(@, Search(m, "error", 0))]]
    /\ UNCHANGED <<clock, opportunities, sync_state_doc, sync_state, frame, calls>>
    /\ UNCHANGED outside_sync

\* "Store new opportunities": nothing new: return; else bulk upsert, of which
\* the first `stored` upserts succeed, and the in-memory state update.
incremental_sync_store(m) ==
    /\ pc[m] = "inc_store"
    /\ LET all_new == frame[m].all_new_opportunities
       IN  IF ~should_store(all_new)
           THEN /\ pc' = [pc EXCEPT ![m] = "idle"]
                /\ outcome' = [outcome EXCEPT ![m] = "returned"]
                /\ UNCHANGED <<opportunities, sync_state, hist>>
           ELSE \E stored \in 0..Len(all_new) :
                /\ opportunities' =
                      bulk_upsert_opportunities(opportunities, SubSeq(all_new, 1, stored))
                /\ sync_state' = [sync_state EXCEPT ![m] =
                      sync_state_after_store(@, frame[m].to_date, stored, Len(all_new))]
                /\ hist' = [hist EXCEPT ![m] = [@ EXCEPT !.upserts = @ + stored]]
                /\ IF stored = Len(all_new)
                   THEN /\ pc' = [pc EXCEPT ![m] = "inc_save"]
                        /\ UNCHANGED outcome
                   ELSE Raise(m, "store_write_error")
    /\ UNCHANGED <<clock, sync_state_doc, frame, calls>>
    /\ UNCHANGED outside_sync

\* _save_sync_state on the in-memory state `state`, as the last statement
\* of a call: stamp it, then replace_one(..., upsert=True), which succeeds
\* (the call returns) or raises (the call raises).
save_sync_state(m, state, ok) ==
    /\ sync_state' = [sync_state EXCEPT ![m] = stamped(state, clock)]
    /\ hist' = [hist EXCEPT ![m] = [@ EXCEPT !.saves = @ + 1]]
    /\ IF ok
       THEN /\ sync_state_doc' = Some(sync_state'[m])
            /\ pc' = [pc EXCEPT ![m] = "idle"]
            /\ outcome' = [outcome EXCEPT ![m] = "returned"]
       ELSE /\ Raise(m, "state_save_error")
            /\ UNCHANGED sync_state_doc

\* self._save_sync_state() at the end of "Update sync state".
incremental_sync_save(m) ==
    /\ pc[m] = "inc_save"
    /\ \E ok \in BOOLEAN : save_sync_state(m, sync_state[m], ok)
    /\ UNCHANGED <<clock, opportunities, frame, calls>>
    /\ UNCHANGED outside_sync

incremental_sync(m) ==
    \/ incremental_sync_begin(m)
    \/ incremental_sync_fetch(m)
    \/ incremental_sync_fetch_ApiException(m)
    \/ incremental_sync_fetch_error(m)
    \/ incremental_sync_store(m)
    \/ incremental_sync_save(m)

\* ------------------------------------------------------------------ full_sync

\* Lines up to the loop: the date range, total_synced = 0; the caller passes
\* a batch_size of `sizes`.
full_sync_begin_with(m, sizes) ==
    /\ pc[m] = "idle"
    /\ calls < MaxCalls
    /\ calls' = calls + 1
    /\ \E batch_size \in sizes :
         frame' = [frame EXCEPT ![m] =
            [NoFrame EXCEPT !.method = "full_sync",
                            !.from_date = clock - DaysBack * TicksPerDay,
                            !.to_date = clock,
                            !.limit = batch_size]]
    /\ pc' = [pc EXCEPT ![m] = "full_fetch"]
    /\ outcome' = [outcome EXCEPT ![m] = "running"]
    /\ hist' = [hist EXCEPT ![m] = StartHist(m)]
    /\ UNCHANGED <<clock, opportunities, sync_state_doc, sync_state>>
    /\ UNCHANGED outside_sync

full_sync_begin(m) == full_sync_begin_with(m, BatchSizes)

\* The frame after "break": total_synced += naics_total, next code.
next_naics(f) ==
    [f EXCEPT !.total_synced = @ + f.naics_total,
              !.naics = @ + 1, !.offset = 0, !.naics_total = 0]

\* "if not opportunities: break" for the records search_opportunities
\* returned: an empty page, or [] after an ApiException.
full_break(m, res) ==
    /\ frame' = [frame EXCEPT ![m] = next_naics(@)]
    /\ pc' = [pc EXCEPT ![m] =
          IF frame[m].naics = Len(naics) THEN "full_save" ELSE "full_fetch"]
    /\ hist' = [hist EXCEPT ![m] = [@ EXCEPT !.trace = Append(@, Search(m, res, 0))]]
    /\ UNCHANGED <<clock, opportunities, sync_state_doc, sync_state, outcome, calls>>
    /\ UNCHANGED outside_sync

\* The source answers with a page that holds records: bulk upsert (the first
\* `stored` upserts succeed), offset += batch_size, time.sleep(3), cap check.
full_sync_page(m) ==
    /\ pc[m] = "full_fetch"
    /\ \E page \in Pages(frame[m].limit) \ {<<>>} :
       \E stored \in 0..Len(page) :
         /\ opportunities' =
               bulk_upsert_opportunities(opportunities,
                    SubSeq(tagged(page, naics[frame[m].naics]), 1, stored))
         /\ IF stored < Len(page)
            THEN /\ Raise(m, "store_write_error")
                 /\ hist' = [hist EXCEPT ![m] =
                       [@ EXCEPT !.upserts = @ + stored,
                                 !.trace = Append(@, Search(m, "ok", Len(page)))]]
                 /\ UNCHANGED frame
            ELSE LET f == [frame[m] EXCEPT !.naics_total = @ + Len(page),
                                           !.offset = @ + frame[m].limit]
                     stop == batch_limit_reached(f.naics_total, f.limit)
                 IN  /\ frame' = [frame EXCEPT ![m] = IF stop THEN next_naics(f) ELSE f]
                     /\ pc' = [pc EXCEPT ![m] =
                           IF stop /\ f.naics = Len(naics) THEN "full_save" ELSE "full_fetch"]
                     /\ hist' = [hist EXCEPT ![m] =
                           [@ EXCEPT !.upserts = @ + stored,
                                     !.trace = Append(@, Search(m, "ok", Len(page))),
                                     !.sleeps = Append(@, Sleep(ThrottleBatch,
                                                                Len(hist[m].trace) + 1))]]
                     /\ UNCHANGED outcome
    /\ UNCHANGED <<clock, sync_state_doc, sync_state, calls>>
    /\ UNCHANGED outside_sync

\* The source answers with the empty page.
full_sync_empty_page(m) ==
    /\ pc[m] = "full_fetch"
    /\ full_break(m, "empty")

\* api_instance.search raises ApiException: search_opportunities returns [].
full_sync_ApiException(m) ==
    /\ pc[m] = "full_fetch"
    /\ full_break(m, "ApiException")

\* api_instance.search raises an error that is no ApiException.
full_sync_fetch_error(m) ==
    /\ pc[m] = "full_fetch"
    /\ Raise(m, "source_error")
    /\ hist' = [hist EXCEPT ![m] = [@ EXCEPT !.trace = Append(@, Search(m, "error", 0))]]
    /\ UNCHANGED <<clock, opportunities, sync_state_doc, sync_state, frame, calls>>
    /\ UNCHANGED outside_sync

\* "Update sync state" and _save_sync_state.
full_sync_save(m) ==
    /\ pc[m] = "full_save"
    /\ \E ok \in BOOLEAN :
         save_sync_state(m, full_updated_sync_state(sync_state[m], frame[m].to_date,
                                                    frame[m].total_synced), ok)
    /\ UNCHANGED <<clock, opportunities, frame, calls>>
    /\ UNCHANGED outside_sync

full_sync(m) ==
    \/ full_sync_begin(m)
    \/ full_sync_page(m)
    \/ full_sync_empty_page(m)
    \/ full_sync_ApiException(m)
    \/ full_sync_fetch_error(m)
    \/ full_sync_save(m)

\* One SyncManager, A, whose calls run one after the other.
Next ==
    \/ Tick
    \/ incremental_sync("A")
    \/ full_sync("A")

Spec == Init /\ [][Next]_vars

\* One full_sync run with a batch_size of PageBatchSizes against a source
\* that answers every request, with a page that holds records or with the
\* empty page.
full_sync_pages_begin(m) ==
    /\ calls = 0
    /\ full_sync_begin_with(m, PageBatchSizes)

NextPages ==
    \/ full_sync_pages_begin("A")
    \/ full_sync_page("A")
    \/ full_sync_empty_page("A")
    \/ full_sync_save("A")

SpecPages == Init /\ [][NextPages]_vars

\* ------------------------------------- two SyncManagers on the same Store

\* The first incremental_sync of a SyncManager constructed on the empty
\* Store.
first_incremental_sync(m) ==
    /\ outcome[m] = "none"
    /\ incremental_sync_begin(m)

\* Two SyncManager instances (two processes, or the scheduler's and
\* another), each running incremental_sync once, their steps interleaved
\* in any order: one after the other, or overlapping.
NextConcurrent ==
    \E m \in Managers :
        \/ first_incremental_sync(m)
        \/ incremental_sync_fetch(m)
        \/ incremental_sync_fetch_ApiException(m)
        \/ incremental_sync_fetch_error(m)
        \/ incremental_sync_store(m)
        \/ incremental_sync_save(m)

SpecConcurrent == Init /\ [][NextConcurrent]_vars

\* ------------------------------------------------------- OpportunityScheduler

\* What incremental_sync returns.
result(m) ==
    [new_opportunities |-> Len(frame[m].all_new_opportunities),
     from_date |-> strftime(frame[m].from_date),
     to_date |-> strftime(frame[m].to_date),
     total_synced |-> sync_state[m].total_synced]

\* The records sync_job inserts into db.sync_jobs.
success_record(now, res) == [executed_at |-> now, status |-> "success", result |-> res]

failed_record(now, error) == [executed_at |-> now, status |-> "failed", error |-> error]

\* schedule holds the job from schedule.every(...).do(self.sync_job) in
\* start() to schedule.clear() in stop().
scheduled == main \in {"start", "started", "stop"}

\* stop() has called self.db.close().
closed == main = "stopped"

\* A thread enters sync_job: the job it executes, the number of
\* incremental_sync calls and the audit trail at its start.
entered_sync_job == [state |-> "try", calls |-> calls, sync_jobs |-> sync_jobs]

\* A start() that starts the scheduler thread without waiting for the
\* initial sync_job.
initial_sync_not_awaited(j) == TRUE

\* start(): self.sync_job() is an ordinary call; the statements behind it
\* run when it has returned.
initial_sync_returned(j) == j.state = "done"

\* start() up to "Run once immediately": initialize() (which constructs
\* the Store client and the SyncManager, or fails and start() returns
\* False), the job registered with schedule, and the entry into
\* self.sync_job().
start ==
    /\ main = "new"
    /\ \E initialized, readOk \in BOOLEAN :
         IF initialized
         THEN /\ sync_state' = [sync_state EXCEPT
                                   !["A"] = load_sync_state(sync_state_doc, readOk)]
              /\ main' = "start"
              /\ job' = [job EXCEPT !["main"] = entered_sync_job]
         ELSE /\ main' = "start_failed"
              /\ UNCHANGED <<sync_state, job>>
    /\ UNCHANGED <<clock, opportunities, sync_state_doc, pc, frame, outcome, hist, calls,
                   last_write, capabilities, matches, analysis, analysed,
                   running, thread, sync_jobs, stopped_at>>

\* sync_job, line 51: self.sync_manager.incremental_sync(max_opportunities=90)
sync_job_incremental_sync(t) ==
    /\ job[t].state = "try"
    /\ job[t].calls = calls
    /\ incremental_sync_begin("A")

\* sync_job after incremental_sync: the success record when it returned;
\* the failed record when it raised, or when the insert of the success
\* record raised (it is inside the try); when the insert of the failed
\* record raises too, sync_job raises to its caller: start(), or
\* schedule.run_pending() in run_scheduler, whose thread ends.
sync_job_record(t) ==
    /\ job[t].state = "try"
    /\ job[t].calls < calls
    /\ pc["A"] = "idle"
    /\ job' = [job EXCEPT ![t] = [@ EXCEPT !.state = "done"]]
    /\ \E inserted \in {"success", "failed", "none"} :
         /\ inserted = "success" => outcome["A"] = "returned"
         /\ sync_jobs' =
               IF inserted = "success"
               THEN Append(sync_jobs, success_record(clock, result("A")))
               ELSE IF inserted = "failed"
               THEN Append(sync_jobs,
                           failed_record(clock, IF outcome["A"] = "returned"
                                                THEN "audit_write_error"
                                                ELSE outcome["A"]))
               ELSE sync_jobs
         /\ IF t = "main"
            THEN /\ main' = IF inserted = "none" THEN "start_raised" ELSE main
                 /\ UNCHANGED thread
            ELSE /\ thread' = IF inserted = "none" THEN "raised" ELSE "check"
                 /\ UNCHANGED main
    /\ UNCHANGED <<clock, opportunities, sync_state_doc, sync_state, pc, frame, outcome,
                   hist, calls, last_write, capabilities, matches, analysis, analysed,
                   running, stopped_at>>

\* start() behind the initial sync: self.running = True, the thread created
\* and started.
start_thread ==
    /\ main = "start"
    /\ initial_sync_returned(job["main"])
    /\ running' = TRUE
    /\ thread' = "check"
    /\ main' = "started"
    /\ UNCHANGED <<clock, opportunities, sync_state_doc, sync_state, pc, frame, outcome,
                   hist, calls, last_write, capabilities, matches, analysis, analysed,
                   job, sync_jobs, stopped_at>>

\* run_scheduler: "while self.running:" -- the loop goes on, or the thread
\* ends.
run_scheduler ==
    /\ thread = "check"
    /\ thread' = IF running THEN "run_pending" ELSE "ended"
    /\ UNCHANGED <<clock, opportunities, sync_state_doc, sync_state, pc, frame, outcome,
                   hist, calls, last_write, capabilities, matches, analysis, analysed,
                   running, main, job, sync_jobs, stopped_at>>

\* schedule.run_pending() with the job due: it calls self.sync_job().
run_pending_due ==
    /\ thread = "run_pending"
    /\ scheduled
    /\ calls < MaxCalls
    /\ job["timer"].state # "try"
    /\ job' = [job EXCEPT !["timer"] = entered_sync_job]
    /\ thread' = "sync_job"
    /\ UNCHANGED <<clock, opportunities, sync_state_doc, sync_state, pc, frame, outcome,
                   hist, calls, last_write, capabilities, matches, analysis, analysed,
                   running, main, sync_jobs, stopped_at>>

\* schedule.run_pending() with no job due (or none scheduled), then
\* time.sleep(60).
run_pending_idle ==
    /\ thread = "run_pending"
    /\ thread' = "check"
    /\ UNCHANGED <<clock, opportunities, sync_state_doc, sync_state, pc, frame, outcome,
                   hist, calls, last_write, capabilities, matches, analysis, analysed,
                   running, main, job, sync_jobs, stopped_at>>

\* The sync_job a thread is executing, if any, as stop() finds it: the
\* incremental_sync call it makes and the searches that call has made.
job_in_progress ==
    IF \E t \in Threads : job[t].state = "try"
    THEN LET t == CHOOSE x \in Threads : job[x].state = "try"
         IN  Some([call |-> job[t].calls + 1,
                   searches |-> IF job[t].calls < calls THEN Len(hist["A"].trace) ELSE 0])
    ELSE None

\* stop(), first statement: self.running = False.
stop ==
    /\ main = "started"
    /\ running' = FALSE
    /\ main' = "stop"
    /\ stopped_at' = Some(job_in_progress)
    /\ UNCHANGED <<clock, opportunities, sync_state_doc, sync_state, pc, frame, outcome,
                   hist, calls, last_write, capabilities, matches, analysis, analysed,
                   thread, job, sync_jobs>>

\* stop(), the rest: self.thread.join(timeout=5) returns when the thread
\* has ended or when the five seconds are over, whatever the thread is
\* doing; then schedule.clear() and self.db.close().
stop_join ==
    /\ main = "stop"
    /\ main' = "stopped"
    /\ UNCHANGED <<clock, opportunities, sync_state_doc, sync_state, pc, frame, outcome,
                   hist, calls, last_write, capabilities, matches, analysis, analysed,
                   running, thread, job, sync_jobs, stopped_at>>

\* One OpportunityScheduler, started once and stopped at any time after
\* start() has returned; the steps of the incremental_sync of a sync_job
\* interleave with those of the other thread.
NextScheduler ==
    \/ start
    \/ start_thread
    \/ stop
    \/ stop_join
    \/ run_scheduler
    \/ run_pending_due
    \/ run_pending_idle
    \/ \E t \in Threads : sync_job_incremental_sync(t) \/ sync_job_record(t)
    \/ incremental_sync_fetch("A")
    \/ incremental_sync_fetch_ApiException("A")
    \/ incremental_sync_fetch_error("A")
    \/ incremental_sync_store("A")
    \/ incremental_sync_save("A")

SpecScheduler == Init /\ [][NextScheduler]_vars

\* ------------------------------------------------------------ process restart

\* The process restarts between two calls: SyncManager(db, api_key) is
\* constructed anew and __init__ loads the SyncState; find_one succeeds
\* ("loaded") or raises, which _load_sync_state answers with the default
\* state ("load_failed").
restart(m) ==
    /\ pc[m] = "idle"
    /\ outcome[m] \notin {"none", "loaded", "load_failed"}
    /\ \E readOk \in BOOLEAN :
         /\ sync_state' = [sync_state EXCEPT ![m] = load_sync_state(sync_state_doc, readOk)]
         /\ outcome' = [outcome EXCEPT ![m] = IF readOk THEN "loaded" ELSE "load_failed"]
    /\ frame' = [frame EXCEPT ![m] = NoFrame]
    /\ UNCHANGED <<clock, opportunities, sync_state_doc, pc, hist, calls>>
    /\ UNCHANGED outside_sync

NextRestart ==
    \/ Tick
    \/ incremental_sync("A")
    \/ restart("A")

SpecRestart == Init /\ [][NextRestart]_vars

\* --------------------------------------------------------- CapabilityMatcher

\* A text is the sequence of its characters.  str.lower():
lower_char(c) ==
    IF c = "A" THEN "a" ELSE IF c = "B" THEN "b" ELSE IF c = "C" THEN "c" ELSE c

lower(text) == [i \in 1..Len(text) |-> lower_char(text[i])]

\* "needle in haystack" of two texts.
contains(haystack, needle) ==
    \E i \in 0..(Len(haystack) - Len(needle)) :
        SubSeq(haystack, i + 1, i + Len(needle)) = needle

\* "x in list" of a list.
in_list(x, list) == \E i \in 1..Len(list) : list[i] = x

\* opp_text: title, a blank and raw_data.description, lowered.
opp_text(opportunity) ==
    lower(opportunity.title \o <<" ">> \o opportunity.description)

\* A score is a number of 1/ScoreUnit points: with ScoreUnit a multiple of
\* every length of a keywords list, keyword_weight * (matched / total) is
\* a whole number of them.
RECURSIVE Factorial(_)
Factorial(n) == IF n <= 1 THEN 1 ELSE n * Factorial(n - 1)

ScoreUnit == Factorial(MaxKeywords)

\* "for keyword in capability['keywords']": the keywords found in the text,
\* in list order.
RECURSIVE matched_keywords(_, _)
matched_keywords(keywords, text) ==
    IF keywords = <<>> THEN <<>>
    ELSE (IF contains(text, lower(Head(keywords))) THEN <<Head(keywords)>> ELSE <<>>)
            \o matched_keywords(Tail(keywords), text)

\* A keyword score that takes the weight off for every keyword not found.
keyword_score_less_missed(matched, keywords) ==
    (KeywordWeight * ScoreUnit * Len(matched)) \div Len(keywords)
        - KeywordWeight * ScoreUnit * (Len(keywords) - Len(matched))

\* keyword_weight * (len(matched_keywords) / len(capability['keywords']))
keyword_score(matched, keywords) ==
    (KeywordWeight * ScoreUnit * Len(matched)) \div Len(keywords)

\* An agency loop that does not stop at the first preferred agency found.
RECURSIVE agency_score_each(_, _)
agency_score_each(preferred_agencies, agency) ==
    IF preferred_agencies = <<>> THEN 0
    ELSE (IF contains(lower(agency), lower(Head(preferred_agencies)))
          THEN AgencyWeight * ScoreUnit ELSE 0)
            + agency_score_each(Tail(preferred_agencies), agency)

\* "for preferred_agency in capability['preferred_agencies']": the weight at
\* the first preferred agency found in the opportunity's agency, then break.
RECURSIVE agency_score(_, _)
agency_score(preferred_agencies, agency) ==
    IF preferred_agencies = <<>> THEN 0
    ELSE IF contains(lower(agency), lower(Head(preferred_agencies)))
         THEN AgencyWeight * ScoreUnit
         ELSE agency_score(Tail(preferred_agencies), agency)

\* min(score, 100)
min(a, b) == IF a <= b THEN a ELSE b

\* calculate_match.  A missing, None or empty value of a dict is the empty
\* text or list: each is false in the conditions that read it.
calculate_match(opportunity, capability) ==
    LET matched ==
            IF capability.keywords # <<>>
            THEN matched_keywords(capability.keywords, opp_text(opportunity))
            ELSE <<>>
        keywords_part ==
            IF matched # <<>> THEN keyword_score(matched, capability.keywords) ELSE 0
        naics_match ==
            /\ capability.naics_codes # <<>>
            /\ opportunity.naics # ""
            /\ in_list(opportunity.naics, capability.naics_codes)
        agency_part ==
            IF capability.preferred_agencies # <<>> /\ opportunity.agency # <<>>
            THEN agency_score(capability.preferred_agencies, opportunity.agency)
            ELSE 0
        set_aside_match ==
            /\ capability.preferred_set_asides # <<>>
            /\ opportunity.set_aside # ""
            /\ in_list(opportunity.set_aside, capability.preferred_set_asides)
        score ==
            keywords_part
              + (IF naics_match THEN NaicsWeight * ScoreUnit ELSE 0)
              + agency_part
              + (IF set_aside_match THEN SetAsideWeight * ScoreUnit ELSE 0)
    IN  [capability_id |-> capability._id,
         capability_name |-> capability.name,
         match_percentage |-> min(score, MaxScore * ScoreUnit),
         match_details |->
            [keyword_matches |-> matched,
             naics_match |-> naics_match,
             agency_match |-> agency_part > 0,
             value_match |-> None,
             set_aside_match |-> set_aside_match]]

\* The keywords lists of at most n keywords.
RECURSIVE KeywordLists(_)
KeywordLists(n) ==
    IF n = 0 THEN {<<>>}
    ELSE LET shorter == KeywordLists(n - 1)
         IN  shorter \cup {Append(l, k) : l \in {q \in shorter : Len(q) = n - 1},
                                          k \in Keywords}

\* The capability documents and the opportunity documents calculate_match
\* is applied to.
Capabilities ==
    [_id : {"c1"}, name : {"c1"}, active : {TRUE},
     keywords : KeywordLists(MaxKeywords),
     naics_codes : {<<>>, <<"n1">>},
     preferred_agencies : {<<>>, <<<<"A">>>>, <<<<"c">>, <<"a">>, <<"b">>>>},
     preferred_set_asides : {<<>>, <<"SBA">>}]

Opportunities ==
    [_id : {"o1"}, posted_date : {0},
     title : {<<>>, <<"A", "b">>, <<"c">>},
     description : {<<>>, <<"b">>},
     naics : {"", "n1", "n2"},
     agency : {<<>>, <<"a", "B">>, <<"c">>},
     set_aside : {"", "SBA"}]

InitCalc ==
    /\ InitSync
    /\ InitScheduler
    /\ \E o \in Opportunities : opportunities = {o}
    /\ \E c \in Capabilities : capabilities = <<c>>
    /\ matches = <<>>
    /\ analysis = NoAnalysis
    /\ analysed = <<>>

\* matcher.calculate_match(opportunity, capability)
calculate_match_call ==
    /\ analysis = NoAnalysis
    /\ \E o \in opportunities :
       \E i \in 1..Len(capabilities) :
         analysis' = [method |-> "calculate_match",
                      opportunity |-> o,
                      capability |-> capabilities[i],
                      returned |-> calculate_match(o, capabilities[i])]
    /\ UNCHANGED <<clock, opportunities, sync_state_doc, sync_state, pc, frame, outcome,
                   hist, calls, last_write, capabilities, matches, analysed>>
    /\ UNCHANGED scheduler_vars

NextCalc == calculate_match_call

SpecCalc == InitCalc /\ [][NextCalc]_vars

\* db.get_capabilities(active_only): find({"active": True}) or find({}), in
\* scan order.
get_capabilities(coll, active_only) ==
    SelectSeq(coll, LAMBDA c : ~active_only \/ c.active)

\* The loop of analyze_opportunity: the matches with match_percentage > 0,
\* in scan order.
RECURSIVE positive_matches(_, _)
positive_matches(opportunity, caps) ==
    IF caps = <<>> THEN <<>>
    ELSE LET match == calculate_match(opportunity, Head(caps))
         IN  (IF match.match_percentage > 0 THEN <<match>> ELSE <<>>)
                \o positive_matches(opportunity, Tail(caps))

\* The row save_match inserts for a match of the opportunity.
match_row(opportunity, match, now) ==
    [opportunity_id |-> opportunity._id,
     capability_id |-> match.capability_id,
     match_percentage |-> match.match_percentage,
     match_details |-> match.match_details,
     created_at |-> now]

\* A save_match that replaces the row of the same opportunity and capability.
save_match_replacing(coll, row) ==
    SelectSeq(coll, LAMBDA r : ~(r.opportunity_id = row.opportunity_id
                                 /\ r.capability_id = row.capability_id))
        \o <<row>>

\* save_match: insert_one.
save_match(coll, row) == Append(coll, row)

\* db.matches after the save_match calls for `kept`, in order.
RECURSIVE saved_matches(_, _, _, _)
saved_matches(coll, opportunity, kept, now) ==
    IF kept = <<>> THEN coll
    ELSE saved_matches(save_match(coll, match_row(opportunity, Head(kept), now)),
                       opportunity, Tail(kept), now)

\* A sort that puts a result before the results of equal match_percentage.
RECURSIVE insert_before_equal(_, _)
insert_before_equal(x, sorted) ==
    IF sorted = <<>> THEN <<x>>
    ELSE IF Head(sorted).match_percentage > x.match_percentage
         THEN <<Head(sorted)>> \o insert_before_equal(x, Tail(sorted))
         ELSE <<x>> \o sorted

RECURSIVE sorted_descending_unstable(_)
sorted_descending_unstable(list) ==
    IF list = <<>> THEN <<>>
    ELSE insert_before_equal(list[Len(list)],
                             sorted_descending_unstable(SubSeq(list, 1, Len(list) - 1)))

\* matches.sort(key=match_percentage, reverse=True): list.sort is stable,
\* with reverse=True too; each result goes behind the results of greater
\* or equal match_percentage that came before it.
RECURSIVE insert_descending(_, _)
insert_descending(x, sorted) ==
    IF sorted = <<>> THEN <<x>>
    ELSE IF Head(sorted).match_percentage >= x.match_percentage
         THEN <<Head(sorted)>> \o insert_descending(x, Tail(sorted))
         ELSE <<x>> \o sorted

RECURSIVE sorted_descending(_)
sorted_descending(list) ==
    IF list = <<>> THEN <<>>
    ELSE insert_descending(list[Len(list)],
                           sorted_descending(SubSeq(list, 1, Len(list) - 1)))

\* The capabilities stored, with one or two keywords, active or not; and the lists of at most n of them, their
\* _id and name (unique) by position.
CapabilityIds == <<"c1", "c2", "c3", "c4">>

CapabilityProfiles ==
    [active : BOOLEAN,
     keywords : {<<<<"a">>>>, <<<<"a">>, <<"c">>>>},
     naics_codes : {<<"n1">>},
     preferred_agencies : {<<>>},
     preferred_set_asides : {<<>>}]

capability_doc(profile, i) ==
    [_id |-> CapabilityIds[i], name |-> CapabilityIds[i],
     active |-> profile.active,
     keywords |-> profile.keywords,
     naics_codes |-> profile.naics_codes,
     preferred_agencies |-> profile.preferred_agencies,
     preferred_set_asides |-> profile.preferred_set_asides]

RECURSIVE CapabilityLists(_)
CapabilityLists(n) ==
    IF n = 0 THEN {<<>>}
    ELSE LET shorter == CapabilityLists(n - 1)
         IN  shorter \cup {Append(l, capability_doc(p, n)) :
                               l \in {q \in shorter : Len(q) = n - 1},
                               p \in CapabilityProfiles}

\* The opportunities stored: one whose text and NAICS code the capabilities
\* can match, one with another text and no NAICS code.
StoredOpportunities ==
    {[_id |-> "o1", posted_date |-> 1, title |-> <<"A", "b">>, description |-> <<>>,
      naics |-> "n1", agency |-> <<>>, set_aside |-> ""],
     [_id |-> "o2", posted_date |-> 2, title |-> <<"c">>, description |-> <<"b">>,
      naics |-> "", agency |-> <<>>, set_aside |-> ""]}

InitAnalyze ==
    /\ InitSync
    /\ InitScheduler
    /\ opportunities = StoredOpportunities
    /\ capabilities \in CapabilityLists(min(MaxCapabilities, Len(CapabilityIds)))
    /\ matches = <<>>
    /\ analysis = NoAnalysis
    /\ analysed = <<>>

\* matcher.analyze_opportunity(opportunity), of whose save_match calls the
\* first `saved` succeed, on the rows `coll`: the rows after it, whether it
\* returns (or raises at the save_match that fails) and what it returns.
analyze_opportunity(coll, opportunity, saved, now) ==
    LET kept == positive_matches(opportunity, get_capabilities(capabilities, TRUE))
    IN  [matches |-> saved_matches(coll, opportunity, SubSeq(kept, 1, saved), now),
         returns |-> saved >= Len(kept),
         returned |-> IF saved >= Len(kept) THEN sorted_descending(kept) ELSE <<>>]

\* The number of save_match calls analyze_opportunity makes.
save_match_calls(opportunity) ==
    Len(positive_matches(opportunity, get_capabilities(capabilities, TRUE)))

analyze_opportunity_call ==
    /\ calls < MaxCalls
    /\ calls' = calls + 1
    /\ \E opportunity \in opportunities :
       \E saved \in 0..save_match_calls(opportunity) :
         LET call == analyze_opportunity(matches, opportunity, saved, clock)
         IN  /\ matches' = call.matches
             /\ analysis' = [method |-> "analyze_opportunity",
                             opportunity |-> opportunity,
                             before |-> matches,
                             outcome |-> IF call.returns THEN "returned"
                                                         ELSE "store_write_error",
                             returned |-> call.returned]
             /\ analysed' = Append(analysed, [opportunity_id |-> opportunity._id,
                                              returned |-> call.returns])
    /\ UNCHANGED <<clock, opportunities, sync_state_doc, sync_state, pc, frame, outcome,
                   hist, last_write, capabilities>>
    /\ UNCHANGED scheduler_vars

NextAnalyze ==
    \/ Tick
    \/ analyze_opportunity_call

SpecAnalyze == InitAnalyze /\ [][NextAnalyze]_vars

\* ObjectId(opp_id) raises InvalidId for a string that is no ObjectId.
MalformedIds == {"zz"}

\* The ids a caller of batch_analyze lists: of the stored opportunities, of
\* none (well-formed), malformed.
OpportunityIds == {"o1", "o2", "o9"} \cup MalformedIds

RECURSIVE IdLists(_)
IdLists(n) ==
    IF n = 0 THEN {<<>>}
    ELSE LET shorter == IdLists(n - 1)
         IN  shorter \cup {Append(l, oid) : l \in {q \in shorter : Len(q) = n - 1},
                                            oid \in OpportunityIds}

\* db.get_opportunity_by_id(opp_id) for a well-formed id: find_one by _id.
get_opportunity_by_id(coll, opp_id) ==
    LET found == {d \in coll : d._id = opp_id}
    IN  IF found = {} THEN None ELSE Some(CHOOSE d \in found : TRUE)

\* "[get_opportunity_by_id(oid) for oid in opportunity_ids]", then
\* "[o for o in opportunities if o]": the documents found, in list order.
RECURSIVE resolved(_, _)
resolved(coll, opportunity_ids) ==
    IF opportunity_ids = <<>> THEN <<>>
    ELSE get_opportunity_by_id(coll, Head(opportunity_ids))
            \o resolved(coll, Tail(opportunity_ids))

\* find(query).sort("posted_date", DESCENDING)
RECURSIVE by_posted_date_descending(_)
by_posted_date_descending(coll) ==
    IF coll = {} THEN <<>>
    ELSE LET d == CHOOSE x \in coll : \A y \in coll : y.posted_date <= x.posted_date
         IN  <<d>> \o by_posted_date_descending(coll \ {d})

\* db.get_opportunities(limit=limit): the most recent first, at most limit.
get_opportunities(coll, limit) ==
    SubSeq(by_posted_date_descending(coll), 1, min(limit, Cardinality(coll)))

\* "if opportunity_ids:" -- None and the empty list are false.
ids_given(opportunity_ids) == opportunity_ids # None /\ opportunity_ids[1] # <<>>

\* The opportunities batch_analyze goes through.
batch_opportunities(coll, opportunity_ids) ==
    IF ids_given(opportunity_ids)
    THEN resolved(coll, opportunity_ids[1])
    ELSE get_opportunities(coll, BatchLimit)

\* A loop that catches the error of an analysis and goes on with the next
\* opportunity.
RECURSIVE batch_loop_tolerant(_, _, _, _)
batch_loop_tolerant(coll, opps, saved, now) ==
    IF opps = <<>>
    THEN [matches |-> coll, analysed |-> <<>>, returns |-> TRUE]
    ELSE LET n == save_match_calls(Head(opps))
             call == analyze_opportunity(coll, Head(opps), min(saved, n), now)
             this == [opportunity_id |-> Head(opps)._id, returned |-> call.returns]
             rest == batch_loop_tolerant(call.matches, Tail(opps),
                                         IF call.returns THEN saved - n ELSE 0, now)
         IN  [matches |-> rest.matches,
              analysed |-> <<this>> \o rest.analysed,
              returns |-> call.returns /\ rest.returns]

\* "for opportunity in opportunities: self.analyze_opportunity(opportunity)"
\* on the rows `coll`, when the first `saved` save_match calls of the loop
\* succeed: the rows after it, the analyses run and whether the loop ends.
RECURSIVE batch_loop(_, _, _, _)
batch_loop(coll, opps, saved, now) ==
    IF opps = <<>>
    THEN [matches |-> coll, analysed |-> <<>>, returns |-> TRUE]
    ELSE LET n == save_match_calls(Head(opps))
             call == analyze_opportunity(coll, Head(opps), min(saved, n), now)
             this == [opportunity_id |-> Head(opps)._id, returned |-> call.returns]
         IN  IF ~call.returns
             THEN [matches |-> call.matches, analysed |-> <<this>>, returns |-> FALSE]
             ELSE LET rest == batch_loop(call.matches, Tail(opps), saved - n, now)
                  IN  [matches |-> rest.matches,
                       analysed |-> <<this>> \o rest.analysed,
                       returns |-> rest.returns]

\* The number of save_match calls the loop makes.
RECURSIVE batch_save_match_calls(_)
batch_save_match_calls(opps) ==
    IF opps = <<>> THEN 0
    ELSE save_match_calls(Head(opps)) + batch_save_match_calls(Tail(opps))

\* The arguments of batch_analyze: no list, or a list of at most MaxIds ids.
BatchArguments == {None} \cup {Some(l) : l \in IdLists(MaxIds)}

malformed(opportunity_ids) ==
    /\ ids_given(opportunity_ids)
    /\ \E i \in 1..Len(opportunity_ids[1]) : opportunity_ids[1][i] \in MalformedIds

\* matcher.batch_analyze(opportunity_ids) with a list that holds a
\* malformed id: get_opportunity_by_id raises before any analysis.
batch_analyze_InvalidId ==
    /\ calls = 0
    /\ calls' = calls + 1
    /\ \E opportunity_ids \in BatchArguments :
         /\ malformed(opportunity_ids)
         /\ analysis' = [method |-> "batch_analyze",
                         opportunity_ids |-> opportunity_ids,
                         before |-> matches,
                         outcome |-> "InvalidId",
                         returned |-> None,
                         analysed |-> <<>>]
    /\ UNCHANGED <<clock, opportunities, sync_state_doc, sync_state, pc, frame, outcome,
                   hist, last_write, capabilities, matches, analysed>>
    /\ UNCHANGED scheduler_vars

\* matcher.batch_analyze(opportunity_ids) that returns the count, or raises
\* at a save_match.
batch_analyze_call ==
    /\ calls = 0
    /\ calls' = calls + 1
    /\ \E opportunity_ids \in BatchArguments :
         /\ ~malformed(opportunity_ids)
         /\ LET opps == batch_opportunities(opportunities, opportunity_ids)
            IN  \E saved \in 0..batch_save_match_calls(opps) :
                  LET run == batch_loop(matches, opps, saved, clock)
                  IN  /\ matches' = run.matches
                      /\ analysed' = analysed \o run.analysed
                      /\ analysis' =
                            [method |-> "batch_analyze",
                             opportunity_ids |-> opportunity_ids,
                             before |-> matches,
                             outcome |-> IF run.returns THEN "returned"
                                                        ELSE "store_write_error",
                             returned |-> IF run.returns THEN Some(Len(opps)) ELSE None,
                             analysed |-> [i \in 1..Len(run.analysed) |->
                                              run.analysed[i].opportunity_id]]
    /\ UNCHANGED <<clock, opportunities, sync_state_doc, sync_state, pc, frame, outcome,
                   hist, last_write, capabilities>>
    /\ UNCHANGED scheduler_vars

\* One call of batch_analyze on the stored opportunities and capabilities.
NextBatch ==
    \/ batch_analyze_call
    \/ batch_analyze_InvalidId

SpecBatch == InitAnalyze /\ [][NextBatch]_vars

\* -------------------------------------------- OpportunityDB, called directly

RECURSIVE timestamped_all(_, _)
timestamped_all(opps, now) ==
    IF opps = <<>> THEN <<>>
    ELSE <<timestamped(Head(opps), now)>> \o timestamped_all(Tail(opps), now)

\* last_write after the dicts `opps` were written in list order.
RECURSIVE written(_, _)
written(last, opps) ==
    IF opps = <<>> THEN last
    ELSE written([last EXCEPT ![Head(opps).url] = Some(Head(opps))], Tail(opps))

\* The lists of at most n dicts.
RECURSIVE OpportunityLists(_)
OpportunityLists(n) ==
    IF n = 0 THEN {<<>>}
    ELSE LET shorter == OpportunityLists(n - 1)
         IN  shorter \cup {Append(l, o) : l \in {q \in shorter : Len(q) = n - 1},
                                          o \in OpportunityDicts}

\* db.upsert_opportunity(opp)
upsert_opportunity_call ==
    /\ \E opp \in OpportunityDicts :
         /\ opportunities' = upsert_opportunity(opportunities, timestamped(opp, clock))
         /\ last_write' = written(last_write, <<timestamped(opp, clock)>>)
    /\ UNCHANGED <<clock, sync_state_doc, sync_state, pc, frame, outcome, hist, calls,
                   capabilities, matches, analysis, analysed>>
    /\ UNCHANGED scheduler_vars

\* db.bulk_upsert_opportunities(opps), of which the first `stored` upserts
\* succeed (the call raises at the first that fails).
bulk_upsert_opportunities_call ==
    /\ \E opps \in OpportunityLists(MaxBulk) :
       \E stored \in 0..Len(opps) :
         LET done == timestamped_all(SubSeq(opps, 1, stored), clock)
         IN  /\ opportunities' = bulk_upsert_opportunities(opportunities, done)
             /\ last_write' = written(last_write, done)
    /\ UNCHANGED <<clock, sync_state_doc, sync_state, pc, frame, outcome, hist, calls,
                   capabilities, matches, analysis, analysed>>
    /\ UNCHANGED scheduler_vars

NextUpsert ==
    \/ Tick
    \/ upsert_opportunity_call
    \/ bulk_upsert_opportunities_call

SpecUpsert == Init /\ [][NextUpsert]_vars

\* ------------------------------------------------------------------- claims

Returned(m, method) ==
    pc[m] = "idle" /\ frame[m].method = method /\ outcome[m] = "returned"

all_new(m) == frame[m].all_new_opportunities

Before(m) == hist[m].sync_state

TotalIncrease(m) == sync_state[m].total_synced - Before(m).total_synced

SearchesOf(m) == {hist[m].trace[i].naics : i \in 1..Len(hist[m].trace)}

\* C1: a record whose url the Store already held before an incremental_sync
\* run is never in the run's new-records set, and the run's increase of
\* total_synced counts only records whose url the Store did not hold.
C1_DedupDropsStoredUrl ==
    \A m \in Managers :
        frame[m].method = "incremental_sync" =>
            /\ RecordUrls(all_new(m)) \cap StoredUrls(hist[m].opportunities) = {}
            /\ pc[m] = "idle" =>
                  TotalIncrease(m) \in {0, Len(all_new(m))}

\* A completed run whose fetch returned a url stored before the run.
C1_Witness ==
    \E m \in Managers :
        /\ Returned(m, "incremental_sync")
        /\ hist[m].dropped \cap StoredUrls(hist[m].opportunities) # {}

\* C2: the increase of total_synced over a completed incremental_sync run
\* equals the number of distinct urls absent from the Store before the run
\* and present after it.
C2_TotalGrowsByDistinctNewUrls ==
    \A m \in Managers :
        Returned(m, "incremental_sync") =>
            TotalIncrease(m) =
                Cardinality(StoredUrls(opportunities) \ StoredUrls(hist[m].opportunities))

\* C3: after an incremental_sync run that returns, last_sync_date and
\* total_synced of the manager's SyncState are >= their values before the run.
C3_MonotonicCursor ==
    \A m \in Managers :
        Returned(m, "incremental_sync") =>
            /\ Before(m).last_sync_date # None =>
                  /\ sync_state[m].last_sync_date # None
                  /\ sync_state[m].last_sync_date[1] >= Before(m).last_sync_date[1]
            /\ sync_state[m].total_synced >= Before(m).total_synced

\* A completed run that advanced a cursor set by an earlier run.
C3_Witness ==
    \E m \in Managers :
        /\ Returned(m, "incremental_sync")
        /\ Before(m).last_sync_date # None
        /\ sync_state[m].last_sync_date[1] > Before(m).last_sync_date[1]
        /\ sync_state[m].total_synced > Before(m).total_synced

\* C4: when saving the SyncState fails at the end of an incremental_sync run,
\* the last_sync_date the manager holds and the stored one are those from
\* before the run, so the next run computes the same window start.
C4_SaveFailureKeepsCursor ==
    \A m \in Managers :
        (frame[m].method = "incremental_sync" /\ outcome[m] = "state_save_error") =>
            /\ sync_state[m].last_sync_date = Before(m).last_sync_date
            /\ sync_state_doc = hist[m].sync_state_doc
            /\ from_date_of(sync_state[m], clock) = from_date_of(Before(m), clock)

\* C5: when an opportunity upsert fails during incremental_sync or full_sync
\* the call raises, issues no SyncState write, and the SyncState in memory
\* and in the Store is what it was before the call.
C5_StoreWriteFailureLeavesState ==
    \A m \in Managers :
        outcome[m] = "store_write_error" =>
            /\ pc[m] = "idle"
            /\ hist[m].saves = 0
            /\ sync_state[m] = Before(m)
            /\ sync_state_doc = hist[m].sync_state_doc

\* A call that raised on an upsert after an earlier upsert of the same call
\* succeeded, with a SyncState set by an earlier call.
C5_Witness ==
    \E m \in Managers :
        /\ outcome[m] = "store_write_error"
        /\ hist[m].upserts > 0
        /\ Before(m).last_sync_date # None

\* C6: a run in which a source call failed (ApiException or any other error
\* of the call) and no Store operation failed still requests every configured
\* code and returns a result.
SourceFailed(m) ==
    \E i \in 1..Len(hist[m].trace) : hist[m].trace[i].res \in {"ApiException", "error"}

C6_SourceFailureTolerated ==
    \A m \in Managers :
        (/\ pc[m] = "idle"
         /\ SourceFailed(m)
         /\ outcome[m] \notin {"store_write_error", "state_save_error"}) =>
            /\ outcome[m] = "returned"
            /\ SearchesOf(m) = 1..Len(naics)

\* C7: an incremental_sync run that returns with zero new records changed
\* neither the SyncState (in memory, in the Store) nor the stored
\* opportunities and issued no write.
C7_NoNewRecordsNoMutation ==
    \A m \in Managers :
        (Returned(m, "incremental_sync") /\ all_new(m) = <<>>) =>
            /\ sync_state[m] = Before(m)
            /\ sync_state_doc = hist[m].sync_state_doc
            /\ opportunities = hist[m].opportunities
            /\ hist[m].saves = 0
            /\ hist[m].upserts = 0

\* A run with zero new records although the source returned a record, after
\* a run that had set the SyncState, at a later time.
C7_Witness ==
    \E m \in Managers :
        /\ Returned(m, "incremental_sync")
        /\ all_new(m) = <<>>
        /\ hist[m].dropped # {}
        /\ Before(m).last_sync_date # None
        /\ frame[m].to_date > Before(m).last_sync_date[1]

\* C8: in an incremental_sync run the SyncState is written only after all new
\* records are upserted; when the run returns with n > 0 new records the
\* stored SyncState is the manager's, its last_sync_date is the run's
\* to_date and its total_synced is the value before the run plus n.
C8_StateSavedAfterUpsert ==
    \A m \in Managers :
        frame[m].method = "incremental_sync" =>
            /\ hist[m].saves > 0 =>
                  /\ hist[m].upserts = Len(all_new(m))
                  /\ RecordUrls(all_new(m)) \subseteq StoredUrls(opportunities)
            /\ (outcome[m] = "returned" /\ all_new(m) # <<>>) =>
                  /\ hist[m].saves = 1
                  /\ sync_state_doc = Some(sync_state[m])
                  /\ sync_state_doc[1].last_sync_date = Some(frame[m].to_date)
                  /\ sync_state_doc[1].total_synced =
                        Before(m).total_synced + Len(all_new(m))

\* A run that stored new records and whose save happened after the clock
\* had moved past the run's to_date, on top of an earlier total.
C8_Witness ==
    \E m \in Managers :
        /\ Returned(m, "incremental_sync")
        /\ all_new(m) # <<>>
        /\ clock > frame[m].to_date
        /\ Before(m).total_synced > 0

\* C9: after a full_sync run that returns, the SyncState was saved and its
\* total_synced is the value before the run plus the records upserted in
\* the run, so it did not decrease.
C9_FullSyncCumulativeTotal ==
    \A m \in Managers :
        Returned(m, "full_sync") =>
            /\ hist[m].saves = 1
            /\ sync_state_doc = Some(sync_state[m])
            /\ sync_state[m].total_synced = Before(m).total_synced + hist[m].upserts
            /\ sync_state[m].total_synced >= Before(m).total_synced

\* C10: in full_sync a failed page request for a code does not end the
\* code's pagination: the run does not go on to another code, or to the
\* state update, as it does after the empty page.
C10_FailedPageDoesNotEndPagination ==
    \A m \in Managers :
        frame[m].method = "full_sync" =>
            \A i \in 1..Len(hist[m].trace) :
                hist[m].trace[i].res = "ApiException" =>
                    IF i < Len(hist[m].trace)
                    THEN hist[m].trace[i + 1].naics = hist[m].trace[i].naics
                    ELSE frame[m].naics = hist[m].trace[i].naics

\* C11: an incremental_sync run over the N configured codes that reaches the
\* end of its loop has slept exactly N times, 2 seconds each, the k-th sleep
\* after the k-th code's search, whatever that search returned; and the
\* k-th code is requested only after k - 1 sleeps.
LoopDone(m) ==
    \/ pc[m] \in {"inc_store", "inc_save"}
    \/ pc[m] = "idle" /\ outcome[m] \in {"returned", "store_write_error", "state_save_error"}

C11_ThrottlePerCode ==
    \A m \in Managers :
        frame[m].method = "incremental_sync" =>
            /\ \A k \in 1..Len(hist[m].sleeps) :
                  hist[m].sleeps[k] = [seconds |-> 2, after |-> k]
            /\ pc[m] = "inc_fetch" =>
                  /\ Len(hist[m].trace) = frame[m].naics - 1
                  /\ Len(hist[m].sleeps) = frame[m].naics - 1
            /\ LoopDone(m) =>
                  /\ Len(hist[m].sleeps) = Len(naics)
                  /\ \A k \in 1..Len(naics) : hist[m].trace[k].naics = k

\* A run that reached its end after one search returned records, one failed
\* with ApiException or returned the empty page.
C11_Witness ==
    \E m \in Managers :
        /\ Returned(m, "incremental_sync")
        /\ \E i, j \in 1..Len(hist[m].trace) :
              /\ hist[m].trace[i].res = "ok"
              /\ hist[m].trace[j].res = "ApiException"

\* C12: in a full_sync run every page request, the empty and the failed one
\* included, is followed by a sleep of 3 seconds, so between any two
\* consecutive requests of the run (of one code or of two codes) the run
\* slept.
SleptAfter(m, i) ==
    \E k \in 1..Len(hist[m].sleeps) : hist[m].sleeps[k] = [seconds |-> 3, after |-> i]

C12_ThrottleAfterEveryPage ==
    \A m \in Managers :
        frame[m].method = "full_sync" =>
            /\ \A i \in 1..(Len(hist[m].trace) - 1) : SleptAfter(m, i)
            /\ outcome[m] = "returned" =>
                  \A i \in 1..Len(hist[m].trace) : SleptAfter(m, i)

\* C13: in a full_sync run the pagination of a code ends exactly at a
\* request answered with the empty page or at the request with which the
\* records upserted for the code reach 3 x batch_size; so a code contributes
\* at most 3 x batch_size records, its requests use the offsets 0,
\* batch_size, 2 x batch_size, ..., and their number is bounded.
SameCode(m, i) == {j \in 1..i : hist[m].trace[j].naics = hist[m].trace[i].naics}

RECURSIVE SumRecords(_, _)
SumRecords(m, js) ==
    IF js = {} THEN 0
    ELSE LET j == CHOOSE x \in js : TRUE
         IN  hist[m].trace[j].records + SumRecords(m, js \ {j})

CodeTotal(m, i) == SumRecords(m, SameCode(m, i))

EndsCode(m, i) ==
    IF i < Len(hist[m].trace)
    THEN hist[m].trace[i + 1].naics # hist[m].trace[i].naics
    ELSE frame[m].naics # hist[m].trace[i].naics

C13_PaginationStops ==
    \A m \in Managers :
        (frame[m].method = "full_sync" /\ outcome[m] \in {"running", "returned"}) =>
            \A i \in 1..Len(hist[m].trace) :
                LET e == hist[m].trace[i]
                IN  /\ EndsCode(m, i) <=>
                          (e.res = "empty" \/ CodeTotal(m, i) >= 3 * e.limit)
                    /\ CodeTotal(m, i) <= 3 * e.limit
                    /\ e.offset = (Cardinality(SameCode(m, i)) - 1) * e.limit
                    /\ Cardinality(SameCode(m, i)) <= 3 * e.limit + 1

\* C14: after any sequence of upsert_opportunity and
\* bulk_upsert_opportunities calls the Store holds exactly one record for
\* each url written and none for any other, and every field of the last
\* dict written for a url has, in that record, the value of that write.
C14_IdempotentUpsert ==
    /\ Cardinality(opportunities) = Cardinality(StoredUrls(opportunities))
    /\ \A u \in Urls :
          IF last_write[u] = None
          THEN find_one(opportunities, u) = {}
          ELSE /\ Cardinality(find_one(opportunities, u)) = 1
               /\ \A d \in find_one(opportunities, u) :
                     \A f \in DOMAIN last_write[u][1] : d[f] = last_write[u][1][f]

\* A url written twice: the stored record has the title of the first write,
\* which the later write did not name, and the later write's timestamps.
C14_Witness ==
    \E u \in Urls :
        /\ last_write[u] # None
        /\ "title" \notin DOMAIN last_write[u][1]
        /\ \E d \in find_one(opportunities, u) :
              /\ "title" \in DOMAIN d
              /\ d.last_updated = last_write[u][1].last_updated
              /\ d.last_updated > 0

\* C15: every request of an incremental_sync run asks for the window from
\* the day of last_sync_date + 1 day (30 days before now when last_sync_date
\* is not set) to the day of now, so its first day is after the day of the
\* last_sync_date the manager held when the run started.
C15_WindowAfterCursor ==
    \A m \in Managers :
        frame[m].method = "incremental_sync" =>
            LET last == Before(m).last_sync_date
                now == hist[m].clock
            IN  /\ frame[m].to_date = now
                /\ frame[m].from_date =
                      IF last # None THEN last[1] + 1 * TicksPerDay
                                     ELSE now - 30 * TicksPerDay
                /\ last # None => frame[m].from_date > last[1]
                /\ \A i \in 1..Len(hist[m].trace) :
                      /\ hist[m].trace[i].posted_to = strftime(now)
                      /\ hist[m].trace[i].posted_from = strftime(frame[m].from_date)
                      /\ last # None =>
                            hist[m].trace[i].posted_from > strftime(last[1])

\* A run that requested every code after an earlier run had returned with
\* new records, at a later time.
C15_Witness ==
    \E m \in Managers :
        /\ Returned(m, "incremental_sync")
        /\ Before(m).last_sync_date # None
        /\ hist[m].sync_state_doc = Some(Before(m))
        /\ hist[m].clock > Before(m).last_sync_date[1]
        /\ Len(hist[m].trace) = Len(naics)

\* C16: for every opportunity and capability, with any keywords list
\* (repeated keywords included) and any combination of factors found,
\* the match_percentage calculate_match returns is at least 0 and at most 100.
C16_ScoreBound ==
    analysis.method = "calculate_match" =>
        /\ analysis.returned.match_percentage >= 0
        /\ analysis.returned.match_percentage <= 100 * ScoreUnit

\* A capability that lists one keyword twice and whose every factor is
\* found: the score is 100.
C16_Witness ==
    /\ analysis.method = "calculate_match"
    /\ Len(analysis.capability.keywords) = 2
    /\ analysis.capability.keywords[1] = analysis.capability.keywords[2]
    /\ analysis.returned.match_percentage = 100 * ScoreUnit

\* C17: the score calculate_match returns is 40 x (keywords found / keywords
\* listed) + 30 when the opportunity's NAICS code is one of the capability's
\* + 20 when some preferred agency is found in the opportunity's agency
\* (once, however many are found) + 10 when the set-aside is a preferred
\* one; keyword_matches lists the keywords found and naics_match,
\* agency_match, set_aside_match are true exactly for the factors counted.
Found(o, c) ==
    {i \in 1..Len(c.keywords) :
        contains(lower(o.title) \o <<" ">> \o lower(o.description), lower(c.keywords[i]))}

NaicsMatches(o, c) ==
    o.naics # "" /\ \E i \in 1..Len(c.naics_codes) : c.naics_codes[i] = o.naics

AgencyMatches(o, c) ==
    /\ o.agency # <<>>
    /\ \E i \in 1..Len(c.preferred_agencies) :
          contains(lower(o.agency), lower(c.preferred_agencies[i]))

SetAsideMatches(o, c) ==
    /\ o.set_aside # ""
    /\ \E i \in 1..Len(c.preferred_set_asides) : c.preferred_set_asides[i] = o.set_aside

Weights(o, c) ==
    (IF NaicsMatches(o, c) THEN 30 ELSE 0)
        + (IF AgencyMatches(o, c) THEN 20 ELSE 0)
        + (IF SetAsideMatches(o, c) THEN 10 ELSE 0)

C17_WeightDecomposition ==
    analysis.method = "calculate_match" =>
        LET o == analysis.opportunity
            c == analysis.capability
            r == analysis.returned
            total == Len(c.keywords)
        IN  /\ IF total = 0
               THEN r.match_percentage = ScoreUnit * Weights(o, c)
               ELSE r.match_percentage * total =
                       ScoreUnit * (40 * Cardinality(Found(o, c)) + total * Weights(o, c))
            /\ Len(r.match_details.keyword_matches) = Cardinality(Found(o, c))
            /\ r.match_details.keyword_matches =
                  SelectSeq(c.keywords, LAMBDA k : \E i \in Found(o, c) : c.keywords[i] = k)
            /\ r.match_details.naics_match = NaicsMatches(o, c)
            /\ r.match_details.agency_match = AgencyMatches(o, c)
            /\ r.match_details.set_aside_match = SetAsideMatches(o, c)

\* One of two keywords found (20), and two preferred agencies found in the
\* opportunity's agency (20, once), no other factor.
C17_Witness ==
    /\ analysis.method = "calculate_match"
    /\ Len(analysis.capability.keywords) = 2
    /\ Len(analysis.returned.match_details.keyword_matches) = 1
    /\ Cardinality({i \in 1..Len(analysis.capability.preferred_agencies) :
            contains(lower(analysis.opportunity.agency),
                     lower(analysis.capability.preferred_agencies[i]))}) = 2
    /\ analysis.returned.match_percentage = 40 * ScoreUnit

\* C18: an analyze_opportunity call that returns has appended one Match row
\* for every active capability whose score is above 0, and no other row;
\* what it returns are the results of exactly those rows, none with score
\* 0; no call changes or removes a row that was there, so after k analyses
\* of an opportunity there are k rows for each such capability.
NewRows == SubSeq(matches, Len(analysis.before) + 1, Len(matches))

RowsOf(rows, opportunity_id, capability_id) ==
    {i \in 1..Len(rows) : /\ rows[i].opportunity_id = opportunity_id
                          /\ rows[i].capability_id = capability_id}

Scores(o, c) == c.active /\ calculate_match(o, c).match_percentage > 0

Analyses(opportunity_id) ==
    Cardinality({i \in 1..Len(analysed) : analysed[i].opportunity_id = opportunity_id})

C18_AppendOnePerPositive ==
    analysis.method = "analyze_opportunity" =>
        /\ Len(matches) >= Len(analysis.before)
        /\ SubSeq(matches, 1, Len(analysis.before)) = analysis.before
        /\ analysis.outcome = "returned" =>
              LET o == analysis.opportunity
              IN  /\ \A i \in 1..Len(capabilities) :
                        Cardinality(RowsOf(NewRows, o._id, capabilities[i]._id)) =
                            IF Scores(o, capabilities[i]) THEN 1 ELSE 0
                  /\ Len(NewRows) =
                        Cardinality({i \in 1..Len(capabilities) : Scores(o, capabilities[i])})
                  /\ Len(analysis.returned) = Len(NewRows)
                  /\ \A j \in 1..Len(analysis.returned) :
                        LET r == analysis.returned[j]
                        IN  /\ r.match_percentage > 0
                            /\ \E i \in 1..Len(NewRows) :
                                  /\ NewRows[i].capability_id = r.capability_id
                                  /\ NewRows[i].match_percentage = r.match_percentage
                                  /\ NewRows[i].match_details = r.match_details
        /\ (\A k \in 1..Len(analysed) : analysed[k].returned) =>
              \A o \in opportunities :
              \A i \in 1..Len(capabilities) :
                  Cardinality(RowsOf(matches, o._id, capabilities[i]._id)) =
                      IF Scores(o, capabilities[i]) THEN Analyses(o._id) ELSE 0

\* The second analysis of an opportunity, with an active capability above
\* 0, an active one at 0 and an inactive one that would score: two rows.
C18_Witness ==
    /\ analysis.method = "analyze_opportunity"
    /\ analysis.outcome = "returned"
    /\ Analyses(analysis.opportunity._id) = 2
    /\ Len(analysis.before) = 1
    /\ Len(matches) = 2
    /\ \E i, j \in 1..Len(capabilities) :
          /\ capabilities[i].active
          /\ calculate_match(analysis.opportunity, capabilities[i]).match_percentage = 0
          /\ ~capabilities[j].active
          /\ calculate_match(analysis.opportunity, capabilities[j]).match_percentage > 0

\* C19: the list analyze_opportunity returns is in descending order of
\* match_percentage, and results of equal match_percentage are in the order
\* in which the capability scan returned their capabilities.
ScanPosition(capability_id) ==
    CHOOSE i \in 1..Len(capabilities) : capabilities[i]._id = capability_id

C19_SortedStable ==
    (analysis.method = "analyze_opportunity" /\ analysis.outcome = "returned") =>
        \A i, j \in 1..Len(analysis.returned) :
            i < j =>
                LET a == analysis.returned[i]
                    b == analysis.returned[j]
                IN  /\ a.match_percentage >= b.match_percentage
                    /\ a.match_percentage = b.match_percentage =>
                          ScanPosition(a.capability_id) < ScanPosition(b.capability_id)

\* Three results returned: first the one of the capability scanned second,
\* then the two of equal match_percentage, scanned first and third.
C19_Witness ==
    /\ analysis.method = "analyze_opportunity"
    /\ analysis.outcome = "returned"
    /\ Len(analysis.returned) = 3
    /\ analysis.returned[1].capability_id = capabilities[2]._id
    /\ analysis.returned[2].capability_id = capabilities[1]._id
    /\ analysis.returned[3].capability_id = capabilities[3]._id
    /\ analysis.returned[2].match_percentage = analysis.returned[3].match_percentage

\* C20: batch_analyze with an id list, of any length, analyses the stored
\* opportunities whose ids the list holds, in list order, skips the ids of
\* no stored opportunity, and returns the number of ids found; with no list
\* it analyses the most recent opportunities, at most 1000.
StoredIds == {d._id : d \in opportunities}

FoundIds(opportunity_ids) == SelectSeq(opportunity_ids, LAMBDA oid : oid \in StoredIds)

MostRecentIds ==
    LET recent == get_opportunities(opportunities, 1000)
    IN  [i \in 1..Len(recent) |-> recent[i]._id]

C20_ExplicitIdList ==
    analysis.method = "batch_analyze" =>
        IF analysis.opportunity_ids # None
        THEN /\ analysis.outcome \in {"returned", "store_write_error"}
             /\ analysis.outcome = "returned" =>
                   /\ analysis.analysed = FoundIds(analysis.opportunity_ids[1])
                   /\ analysis.returned = Some(Len(FoundIds(analysis.opportunity_ids[1])))
        ELSE analysis.outcome = "returned" =>
                   /\ analysis.analysed = MostRecentIds
                   /\ analysis.returned = Some(Len(MostRecentIds))

\* C21: a batch_analyze call in which an analysis raises gives no count;
\* the opportunities analysed are those of the batch up to the one whose
\* analysis raised, and no later one; the rows appended for the
\* opportunities before it, and for the earlier capabilities of the one
\* that failed, are in the Store behind the rows that were there.
ScoringCapabilities(o) == SelectSeq(capabilities, LAMBDA c : Scores(o, c))

RowKeys(rows) == [i \in 1..Len(rows) |-> <<rows[i].opportunity_id, rows[i].capability_id>>]

KeysOf(o) ==
    [i \in 1..Len(ScoringCapabilities(o)) |-> <<o._id, ScoringCapabilities(o)[i]._id>>]

RECURSIVE KeysOfAll(_)
KeysOfAll(opps) ==
    IF opps = <<>> THEN <<>> ELSE KeysOf(Head(opps)) \o KeysOfAll(Tail(opps))

BatchOf(a) == batch_opportunities(opportunities, a.opportunity_ids)

C21_FailureAbortsBatch ==
    (analysis.method = "batch_analyze" /\ analysis.outcome = "store_write_error") =>
        LET opps == BatchOf(analysis)
            i == Len(analysis.analysed)
        IN  /\ analysis.returned = None
            /\ i \in 1..Len(opps)
            /\ analysis.analysed = [j \in 1..i |-> opps[j]._id]
            /\ Len(analysed) = i
            /\ \A j \in 1..i : analysed[j].returned <=> j < i
            /\ Len(matches) >= Len(analysis.before)
            /\ SubSeq(matches, 1, Len(analysis.before)) = analysis.before
            /\ \E k \in 0..(Len(KeysOf(opps[i])) - 1) :
                  RowKeys(NewRows) = KeysOfAll(SubSeq(opps, 1, i - 1))
                                        \o SubSeq(KeysOf(opps[i]), 1, k)

\* The analysis of the first of two opportunities raises at its second
\* save_match; the second opportunity, which has capabilities that score,
\* is not analysed, and the first row is in the Store.
C21_Witness ==
    /\ analysis.method = "batch_analyze"
    /\ analysis.outcome = "store_write_error"
    /\ Len(BatchOf(analysis)) = 2
    /\ Len(analysis.analysed) = 1
    /\ Len(matches) = 1
    /\ KeysOf(BatchOf(analysis)[2]) # <<>>

\* C27: a run of incremental_sync that advances last_sync_date to its
\* to_date has ingested the window for every category code: every search of
\* the run was answered by the source, none failed, and none returned as
\* many records as the request allowed (a code that holds more than one
\* request returns has records the run never asks for).
AdvancedCursor(m) ==
    /\ Returned(m, "incremental_sync")
    /\ hist[m].saves > 0
    /\ sync_state_doc # None
    /\ sync_state_doc[1].last_sync_date = Some(frame[m].to_date)

C27_WindowIngested ==
    \A m \in Managers :
        AdvancedCursor(m) =>
            \A i \in 1..Len(hist[m].trace) :
                /\ hist[m].trace[i].res \in {"ok", "empty"}
                /\ hist[m].trace[i].records < hist[m].trace[i].limit

\* C28: the window of every incremental_sync run is well-formed: its
\* from_date is not after its to_date, as datetimes and as the date strings
\* passed to the source.
C28_WindowWellFormed ==
    \A m \in Managers :
        frame[m].method = "incremental_sync" =>
            /\ frame[m].from_date <= frame[m].to_date
            /\ \A i \in 1..Len(hist[m].trace) :
                  hist[m].trace[i].posted_from <= hist[m].trace[i].posted_to

\* C24: two incremental_sync runs on the same Store that overlap can both
\* find a url absent and both count it: when both have returned with the
\* url among their new records, the Store holds one record for it, and the
\* total_synced increases of the two runs count every new record of each,
\* that url twice.
BothFoundNew == \A m \in Managers : Returned(m, "incremental_sync") /\ hist[m].saves > 0

CountedByBoth == RecordUrls(all_new("A")) \cap RecordUrls(all_new("B"))

C24_DoubleCount ==
    BothFoundNew =>
        /\ \A m \in Managers : TotalIncrease(m) = Len(all_new(m))
        /\ \A u \in CountedByBoth : Cardinality(find_one(opportunities, u)) = 1

\* Both runs have stored the same single url: one record, counted twice.
C24_Witness ==
    /\ BothFoundNew
    /\ CountedByBoth # {}
    /\ Cardinality(opportunities) = 1
    /\ TotalIncrease("A") + TotalIncrease("B") = 2

\* C25: when two SyncManager instances have each completed a run that
\* found new records, the persisted total_synced holds both increases.
C25_NoLostUpdate ==
    BothFoundNew =>
        sync_state_doc[1].total_synced = TotalIncrease("A") + TotalIncrease("B")

\* C29: over incremental_sync runs and restarts, a run leaves the persisted
\* last_sync_date and total_synced no lower than it found them (only runs
\* write the persisted SyncState), and a manager restarted with a
\* successful read computes its window from the persisted last_sync_date.
Persisted == IF sync_state_doc = None THEN DefaultState ELSE sync_state_doc[1]

PersistedBefore(m) ==
    IF hist[m].sync_state_doc = None THEN DefaultState ELSE hist[m].sync_state_doc[1]

C29_PersistedCursorSurvives ==
    \A m \in Managers :
        /\ frame[m].method = "incremental_sync" =>
              /\ Persisted.total_synced >= PersistedBefore(m).total_synced
              /\ PersistedBefore(m).last_sync_date # None =>
                    /\ Persisted.last_sync_date # None
                    /\ Persisted.last_sync_date[1] >= PersistedBefore(m).last_sync_date[1]
        /\ outcome[m] = "loaded" =>
              from_date_of(sync_state[m], clock) = from_date_of(Persisted, clock)

\* C22: once stop() has cleared the running flag while a sync job is in
\* progress, that job starts no further fetch: the incremental_sync call of
\* the job makes no search beyond those it had made.
C22_StopBetweenCodes ==
    (stopped_at # None /\ stopped_at[1] # None) =>
        (calls = stopped_at[1][1].call =>
            Len(hist["A"].trace) = stopped_at[1][1].searches)

\* C23: a sync_job that has been executed has appended exactly one record
\* behind the records that were there, which it left as they were: a
\* success record with the result when incremental_sync returned, a failed
\* record with the error when it raised.
C23_OneOutcomeRecord ==
    \A t \in Threads :
        (job[t].state = "done" /\ job[t].calls + 1 = calls) =>
            /\ Len(sync_jobs) = Len(job[t].sync_jobs) + 1
            /\ SubSeq(sync_jobs, 1, Len(job[t].sync_jobs)) = job[t].sync_jobs
            /\ LET record == sync_jobs[Len(sync_jobs)]
               IN  IF outcome["A"] = "returned"
                   THEN record.status = "success" /\ record.result = result("A")
                   ELSE record.status = "failed" /\ record.error = outcome["A"]

\* C26: at most one sync job is being executed at any time: the scheduler
\* thread exists only when the initial job of start() has been executed,
\* it is inside sync_job exactly while its job is being executed, and a
\* running incremental_sync is the call of the one job being executed.
Executing == {t \in Threads : job[t].state = "try"}

C26_OneJobAtATime ==
    /\ Cardinality(Executing) <= 1
    /\ thread # "none" => job["main"].state = "done"
    /\ thread = "sync_job" <=> job["timer"].state = "try"
    /\ pc["A"] # "idle" => \E t \in Executing : job[t].calls + 1 = calls

\* The scheduler thread is executing a scheduled job, in the middle of its
\* incremental_sync, after the initial job of start().
C26_Witness ==
    /\ job["main"].state = "done"
    /\ Executing = {"timer"}
    /\ pc["A"] = "inc_store"
    /\ calls = 2

\* C30: when stop() has closed the Store connection, no sync job is being
\* executed.
C30_NoJobAfterClose == closed => Executing = {}

====
